---- MODULE Spec2Model ----
(***************************************************************************)
(* Composite ledger keys (token/services/network/common/rws/keys) and the  *)
(* balance view (integration/token/fungible/views).                         *)
(*                                                                         *)
(* A Go string is a sequence of bytes 0..255.  Offsets are Go offsets      *)
(* (0-based); At and Slice translate them to TLA+ sequences.                *)
(***************************************************************************)
EXTENDS Integers, Sequences, FiniteSets, TLC

\* ------------------------------------------------------------------ bounds
MaxLen     == 2   \* chunks in a string argument of a catalog constructor
MaxTxLen   == 1   \* chunks in a transaction id
MaxAttrs   == 3   \* attributes handed to CreateCompositeKey directly
MaxIndex   == 10  \* largest output index
MaxRawLen  == 7   \* bytes in a key read back from the store
MaxTokens  == 3   \* unspent tokens in a wallet
MaxPrecision == 2 \* largest ledger precision

\* --------------------------------------------------------------- constants
minUnicodeRuneValue == 0
MaxUnicodeRuneValue == 1114111
RuneError           == 65533
numComponentsInKey  == 2

compositeKeyNamespace   == <<0>>
TokenKeyPrefix          == <<122, 116, 111, 107, 101, 110>>
TokenSetupKeyPrefix     == <<115, 101, 116, 117, 112>>
TokenSetupHashKeyPrefix == <<115, 101, 116, 117, 112, 46, 104, 97, 115, 104>>
TokenRequestKeyPrefix   == <<116, 111, 107, 101, 110, 95, 114, 101, 113, 117, 101, 115, 116>>
SerialNumber            == <<115, 110>>
IssueActionMetadata     == <<105, 97, 109>>
TransferActionMetadata  == <<116, 97, 109>>

\* ----------------------------------------------------------- Go strings
At(s, i)       == s[i + 1]
Slice(s, a, b) == SubSeq(s, a + 1, b)

IsCont(b) == b >= 128 /\ b <= 191

\* utf8.DecodeRuneInString at offset i: the rune and the bytes it takes.
\* An ill-formed sequence decodes to RuneError of size 1.
DecodeRune(s, i) ==
  LET n   == Len(s) - i
      b0  == At(s, i)
      bad == [rune |-> RuneError, size |-> 1]
  IN  IF b0 < 128 THEN [rune |-> b0, size |-> 1]
      ELSE IF b0 >= 194 /\ b0 <= 223 THEN
        IF n >= 2 /\ IsCont(At(s, i + 1))
        THEN [rune |-> (b0 % 32) * 64 + (At(s, i + 1) % 64), size |-> 2]
        ELSE bad
      ELSE IF b0 >= 224 /\ b0 <= 239 THEN
        IF n >= 3
           /\ At(s, i + 1) >= (IF b0 = 224 THEN 160 ELSE 128)
           /\ At(s, i + 1) <= (IF b0 = 237 THEN 159 ELSE 191)
           /\ IsCont(At(s, i + 2))
        THEN [rune |-> (b0 % 16) * 4096 + (At(s, i + 1) % 64) * 64
                       + (At(s, i + 2) % 64), size |-> 3]
        ELSE bad
      ELSE IF b0 >= 240 /\ b0 <= 244 THEN
        IF n >= 4
           /\ At(s, i + 1) >= (IF b0 = 240 THEN 144 ELSE 128)
           /\ At(s, i + 1) <= (IF b0 = 244 THEN 143 ELSE 191)
           /\ IsCont(At(s, i + 2))
           /\ IsCont(At(s, i + 3))
        THEN [rune |-> (b0 % 8) * 262144 + (At(s, i + 1) % 64) * 4096
                       + (At(s, i + 2) % 64) * 64 + (At(s, i + 3) % 64), size |-> 4]
        ELSE bad
      ELSE bad

RECURSIVE ValidFrom(_, _)
ValidFrom(s, i) ==
  IF i >= Len(s) THEN TRUE
  ELSE LET d == DecodeRune(s, i)
       IN  IF d.rune = RuneError /\ d.size = 1 THEN FALSE
           ELSE ValidFrom(s, i + d.size)

\* utf8.ValidString
ValidString(s) == ValidFrom(s, 0)

RECURSIVE FormatDigits(_)
FormatDigits(n) ==
  IF n < 10 THEN <<48 + n>> ELSE Append(FormatDigits(n \div 10), 48 + (n % 10))

\* strconv.FormatUint(index, 10)
FormatUint(n) == FormatDigits(n)

\* ---------------------------------------------------------------- errors
Nil == [kind |-> "nil", rune |-> 0, index |-> 0, str |-> <<>>, found |-> 0]
Errorf(k, r, i, s, f) == [kind |-> k, rune |-> r, index |-> i, str |-> s, found |-> f]

\* ------------------------------------------------------------- key codec
\* for index, runeValue := range str
RECURSIVE RangeRunes(_, _)
RangeRunes(str, index) ==
  IF index >= Len(str) THEN Nil
  ELSE LET d == DecodeRune(str, index)
       IN  IF d.rune = minUnicodeRuneValue \/ d.rune = MaxUnicodeRuneValue
           THEN Errorf("forbidden rune", d.rune, index, <<>>, 0)
           ELSE RangeRunes(str, index + d.size)

\* mutant: the utf8.ValidString test is left out
ValidateCompositeKeyAttribute_NoUtf8Check(str) == RangeRunes(str, 0)

ValidateCompositeKeyAttribute(str) ==
  IF ~ValidString(str) THEN Errorf("not utf8", 0, 0, str, 0)
  ELSE RangeRunes(str, 0)

\* the loop over attributes, ck being the key built so far
RECURSIVE AppendAttributes(_, _, _)
AppendAttributes(ck, attributes, n) ==
  IF n > Len(attributes) THEN [key |-> ck, err |-> Nil]
  ELSE LET err == ValidateCompositeKeyAttribute(attributes[n])
       IN  IF err # Nil THEN [key |-> <<>>, err |-> err]
           ELSE AppendAttributes(ck \o attributes[n] \o <<minUnicodeRuneValue>>,
                                 attributes, n + 1)

\* mutant: the key does not start with the namespace byte
CreateCompositeKey_NoNamespace(objectType, attributes) ==
  LET err == ValidateCompositeKeyAttribute(objectType)
  IN  IF err # Nil THEN [key |-> <<>>, err |-> err]
      ELSE AppendAttributes(objectType \o <<minUnicodeRuneValue>>, attributes, 1)

CreateCompositeKey(objectType, attributes) ==
  LET err == ValidateCompositeKeyAttribute(objectType)
  IN  IF err # Nil THEN [key |-> <<>>, err |-> err]
      ELSE AppendAttributes(compositeKeyNamespace \o objectType \o <<minUnicodeRuneValue>>,
                            attributes, 1)

\* for i := 1; i < len(compositeKey); i++
RECURSIVE SplitLoop(_, _, _, _)
SplitLoop(compositeKey, i, componentIndex, components) ==
  IF i >= Len(compositeKey) THEN components
  ELSE IF At(compositeKey, i) = minUnicodeRuneValue
       THEN SplitLoop(compositeKey, i + 1, i + 1,
                      Append(components, Slice(compositeKey, componentIndex, i)))
       ELSE SplitLoop(compositeKey, i + 1, componentIndex, components)

\* mutant: the minimum is numComponentsInKey, the object type not counted
SplitCompositeKey_MinTwo(compositeKey) ==
  LET components == SplitLoop(compositeKey, 1, 1, <<>>)
  IN  IF Len(components) < numComponentsInKey
      THEN [prefix |-> <<>>, components |-> <<>>,
            err |-> Errorf("not enough components", 0, 0, compositeKey, Len(components))]
      ELSE [prefix |-> components[1], components |-> Tail(components), err |-> Nil]

SplitCompositeKey(compositeKey) ==
  LET components == SplitLoop(compositeKey, 1, 1, <<>>)
  IN  IF Len(components) < numComponentsInKey + 1
      THEN [prefix |-> <<>>, components |-> <<>>,
            err |-> Errorf("not enough components", 0, 0, compositeKey, Len(components))]
      ELSE [prefix |-> components[1], components |-> Tail(components), err |-> Nil]

\* errors.Wrapf(err, ...) is nil when err is nil
Wrapf(err, k, s, f) == IF err = Nil THEN Nil ELSE Errorf(k, 0, 0, s, f)

\* mutant: components[0] is returned instead of components[1]
GetTransferMetadataSubKey_ReturnsMarker(k) ==
  LET r == SplitCompositeKey(k)
  IN  IF r.err # Nil
      THEN [subKey |-> <<>>, err |-> Wrapf(r.err, "failed to split", k, 0)]
      ELSE IF Len(r.components) # 2
      THEN [subKey |-> <<>>,
            err |-> Wrapf(r.err, "should contain 2 components", k, Len(r.components))]
      ELSE IF r.prefix # TokenKeyPrefix
      THEN [subKey |-> <<>>, err |-> Errorf("no token key prefix", 0, 0, k, 0)]
      ELSE IF r.components[1] # TransferActionMetadata
      THEN [subKey |-> <<>>, err |-> Errorf("no transfer action metadata prefix", 0, 0, k, 0)]
      ELSE [subKey |-> r.components[1], err |-> Nil]

\* mutant: the object type is not compared with TokenKeyPrefix
GetTransferMetadataSubKey_NoPrefixCheck(k) ==
  LET r == SplitCompositeKey(k)
  IN  IF r.err # Nil
      THEN [subKey |-> <<>>, err |-> Wrapf(r.err, "failed to split", k, 0)]
      ELSE IF Len(r.components) # 2
      THEN [subKey |-> <<>>,
            err |-> Wrapf(r.err, "should contain 2 components", k, Len(r.components))]
      ELSE IF r.components[1] # TransferActionMetadata
      THEN [subKey |-> <<>>, err |-> Errorf("no transfer action metadata prefix", 0, 0, k, 0)]
      ELSE [subKey |-> r.components[2], err |-> Nil]

GetTransferMetadataSubKey(k) ==
  LET r == SplitCompositeKey(k)
  IN  IF r.err # Nil
      THEN [subKey |-> <<>>, err |-> Wrapf(r.err, "failed to split", k, 0)]
      ELSE IF Len(r.components) # 2
      THEN [subKey |-> <<>>,
            err |-> Wrapf(r.err, "should contain 2 components", k, Len(r.components))]
      ELSE IF r.prefix # TokenKeyPrefix
      THEN [subKey |-> <<>>, err |-> Errorf("no token key prefix", 0, 0, k, 0)]
      ELSE IF r.components[1] # TransferActionMetadata
      THEN [subKey |-> <<>>, err |-> Errorf("no transfer action metadata prefix", 0, 0, k, 0)]
      ELSE [subKey |-> r.components[2], err |-> Nil]

\* ----------------------------------------------------------- key catalog
TokenKeyAttributes(txID, index)          == <<txID, FormatUint(index)>>
SNKeyAttributes(sn)                      == <<SerialNumber, sn>>
SetupKeyAttributes                       == <<TokenSetupKeyPrefix>>
SetupHashKeyAttributes                   == <<TokenSetupHashKeyPrefix>>
TokenRequestKeyAttributes(txID)          == <<TokenRequestKeyPrefix, txID>>
IssueActionMetadataKeyAttributes(hash)   == <<IssueActionMetadata, hash>>
TransferActionMetadataKeyAttributes(sub) == <<TransferActionMetadata, sub>>

\* ------------------------------------------------- fixed-precision quantity
\* (token/token: NewZeroQuantity, ToQuantity, Add, Decimal)
IsDigit(c) == c >= 48 /\ c <= 57
AllDigits(t) == \A i \in 1..Len(t) : IsDigit(t[i])

RECURSIVE Pow10(_)
Pow10(n) == IF n = 0 THEN 1 ELSE 10 * Pow10(n - 1)

RECURSIVE DigitsValue(_)
DigitsValue(t) ==
  IF t = <<>> THEN 0
  ELSE 10 * DigitsValue(SubSeq(t, 1, Len(t) - 1)) + (t[Len(t)] - 48)

RECURSIVE PadLeft(_, _)
PadLeft(t, n) == IF Len(t) >= n THEN t ELSE PadLeft(<<48>> \o t, n)

NewZeroQuantity(precision) == [precision |-> precision, value |-> 0]

ToQuantity(text, precision) ==
  LET dots  == {i \in 1..Len(text) : text[i] = 46}
      dot   == IF dots = {} THEN Len(text) + 1 ELSE CHOOSE i \in dots : \A j \in dots : i <= j
      whole == SubSeq(text, 1, dot - 1)
      frac  == SubSeq(text, dot + 1, Len(text))
      ok    == /\ whole # <<>>
               /\ AllDigits(whole)
               /\ AllDigits(frac)
               /\ (dots # {} => frac # <<>>)
               /\ Len(frac) <= precision
  IN  IF ok
      THEN [q |-> [precision |-> precision,
                   value |-> DigitsValue(whole) * Pow10(precision)
                             + DigitsValue(frac) * Pow10(precision - Len(frac))],
            err |-> Nil]
      ELSE [q |-> NewZeroQuantity(precision),
            err |-> Errorf("invalid quantity", 0, 0, text, 0)]

Add(a, b) == [precision |-> a.precision, value |-> a.value + b.value]

Decimal(q) ==
  LET scale == Pow10(q.precision)
  IN  IF q.precision = 0 THEN FormatDigits(q.value)
      ELSE FormatDigits(q.value \div scale) \o <<46>>
           \o PadLeft(FormatDigits(q.value % scale), q.precision)

\* ------------------------------------------------------------ balance view
NoBalance == [set |-> FALSE, Type |-> "", Quantity |-> <<>>]
Balance(type, quantity) == [set |-> TRUE, Type |-> type, Quantity |-> quantity]

\* for _, tok := range unspentTokens.Tokens
RECURSIVE SumTokens(_, _, _, _)
SumTokens(tokens, n, sum, precision) ==
  IF n > Len(tokens) THEN [sum |-> sum, err |-> Nil]
  ELSE LET r == ToQuantity(tokens[n], precision)
       IN  IF r.err # Nil THEN [sum |-> sum, err |-> r.err]
           ELSE SumTokens(tokens, n + 1, Add(sum, r.q), precision)

\* mutant: the sum starts from the first token's quantity added to itself
Call_NoZero(type, found, listErr, tokens, precision) ==
  IF ~found THEN [result |-> NoBalance, err |-> Errorf("wallet not found", 0, 0, <<>>, 0)]
  ELSE IF listErr # Nil THEN [result |-> NoBalance, err |-> listErr]
  ELSE LET first == IF tokens = <<>> THEN NewZeroQuantity(precision)
                    ELSE ToQuantity(tokens[1], precision).q
           r == SumTokens(tokens, 1, first, precision)
       IN  IF r.err # Nil THEN [result |-> NoBalance, err |-> r.err]
           ELSE [result |-> Balance(type, Decimal(r.sum)), err |-> Nil]

\* mutant: a quantity that does not parse ends the loop without an error
Call_IgnoresParseError(type, found, listErr, tokens, precision) ==
  IF ~found THEN [result |-> NoBalance, err |-> Errorf("wallet not found", 0, 0, <<>>, 0)]
  ELSE IF listErr # Nil THEN [result |-> NoBalance, err |-> listErr]
  ELSE LET r == SumTokens(tokens, 1, NewZeroQuantity(precision), precision)
       IN  [result |-> Balance(type, Decimal(r.sum)), err |-> Nil]

\* BalanceView.Call: found = OwnerWallet(b.Wallet) is not nil, listErr is the
\* error of ListUnspentTokens, tokens the quantities of the listed tokens
Call(type, found, listErr, tokens, precision) ==
  IF ~found THEN [result |-> NoBalance, err |-> Errorf("wallet not found", 0, 0, <<>>, 0)]
  ELSE IF listErr # Nil THEN [result |-> NoBalance, err |-> listErr]
  ELSE LET r == SumTokens(tokens, 1, NewZeroQuantity(precision), precision)
       IN  IF r.err # Nil THEN [result |-> NoBalance, err |-> r.err]
           ELSE [result |-> Balance(type, Decimal(r.sum)), err |-> Nil]

\* ------------------------------------------------------------------ inputs
Chunks == {<<0>>, <<97>>, <<195, 169>>, <<244, 143, 191, 191>>, <<255>>}

RECURSIVE ChunkStrings(_)
ChunkStrings(n) ==
  IF n = 0 THEN {<<>>}
  ELSE ChunkStrings(n - 1) \cup {s \o c : s \in ChunkStrings(n - 1), c \in Chunks}

RECURSIVE RawStrings(_)
RawStrings(n) ==
  IF n = 0 THEN {<<>>}
  ELSE RawStrings(n - 1) \cup {Append(s, b) : s \in RawStrings(n - 1), b \in {0, 97}}

Indices     == 0..MaxIndex
Markers     == {SerialNumber, TokenRequestKeyPrefix, IssueActionMetadata, TransferActionMetadata}
Decimals    == {FormatUint(3), FormatUint(MaxIndex)}
Strings     == ChunkStrings(MaxLen) \cup Markers \cup Decimals
TxIDs       == ChunkStrings(MaxTxLen) \cup Markers
ShortStrings == ChunkStrings(MaxTxLen) \cup Markers \cup Decimals
\* attributes handed to CreateCompositeKey directly: one chunk, "tam", "aa", "\u00e9\x00"
AttrStrings == ChunkStrings(1) \cup {TransferActionMetadata, <<97, 97>>, <<195, 169, 0>>}
ObjectTypes == {TokenKeyPrefix, <<>>, <<97>>, <<0>>, <<255>>}
RawKeys     == RawStrings(MaxRawLen)

RECURSIVE SeqsUpTo(_, _)
SeqsUpTo(S, n) ==
  IF n = 0 THEN {<<>>}
  ELSE SeqsUpTo(S, n - 1) \cup {Append(l, x) : l \in SeqsUpTo(S, n - 1), x \in S}

AttrLists == SeqsUpTo(AttrStrings, MaxAttrs)

\* "5.00" "2.50" "0.75" "1" "0.01" "1.234" "" "x" "1." "-1"
Texts == {<<53, 46, 48, 48>>, <<50, 46, 53, 48>>, <<48, 46, 55, 53>>, <<49>>,
          <<48, 46, 48, 49>>, <<49, 46, 50, 51, 52>>, <<>>, <<120>>, <<49, 46>>,
          <<45, 49>>}
TokenLists == SeqsUpTo(Texts, MaxTokens)
Precisions == 0..MaxPrecision
Types      == {"USD", "EUR"}
ListErrors == {Nil, Errorf("list failed", 0, 0, <<>>, 0)}

\* ------------------------------------------------------------------- state
VARIABLES
  calls,        \* the calls still to be made, with their arguments
  kind,         \* the constructor that returned key ("ReadKey" for a key read back)
  arg, index,   \* its arguments
  objectType, attributes,   \* what it handed to CreateCompositeKey
  key, keyErr,  \* what it returned
  splitRes,     \* result of SplitCompositeKey(key)
  subRes,       \* result of GetTransferMetadataSubKey(key)
  prev,         \* key returned by the catalog constructor called just before
  query,        \* BalanceView: the query and what the wallet answers
  answer        \* BalanceView.Call's return values

keyVars == <<calls, kind, arg, index, objectType, attributes, key, keyErr, splitRes,
             subRes, prev>>
balVars == <<query, answer>>
vars    == <<calls, kind, arg, index, objectType, attributes, key, keyErr, splitRes,
             subRes, prev, query, answer>>

CatalogKinds == {"CreateTokenKey", "CreateSNKey", "CreateSetupKey", "CreateSetupHashKey",
                 "CreateTokenRequestKey", "CreateIssueActionMetadataKey",
                 "CreateTransferActionMetadataKey"}

NewCall(k, a, i, ot, attrs) ==
  [kind |-> k, arg |-> a, index |-> i, objectType |-> ot, attributes |-> attrs]

\* catalog calls with string arguments from S and transaction ids from T
CatalogCalls(S, T) ==
  {NewCall("CreateSetupKey", <<>>, 0, <<>>, <<>>),
   NewCall("CreateSetupHashKey", <<>>, 0, <<>>, <<>>)}
  \cup {NewCall("CreateTokenKey", t, i, <<>>, <<>>) : t \in T, i \in Indices}
  \cup {NewCall(k, a, 0, <<>>, <<>>) :
          k \in {"CreateSNKey", "CreateTokenRequestKey", "CreateIssueActionMetadataKey",
                 "CreateTransferActionMetadataKey"},
          a \in S}

CodecCalls ==
  {NewCall("CreateCompositeKey", <<>>, 0, ot, attrs) : ot \in ObjectTypes, attrs \in AttrLists}
  \cup {NewCall("ReadKey", k, 0, <<>>, <<>>) : k \in RawKeys}

NoKey   == [kind |-> "none", key |-> <<>>]
NoSplit == [done |-> FALSE, prefix |-> <<>>, components |-> <<>>, err |-> Nil]
NoSub   == [done |-> FALSE, subKey |-> <<>>, err |-> Nil]
NoQuery == [Type |-> "", found |-> FALSE, listErr |-> Nil, tokens |-> <<>>, precision |-> 0]
NoAnswer == [called |-> FALSE, result |-> NoBalance, err |-> Nil]

\* the key of the current call, if a catalog constructor returned it
Last == IF kind \in CatalogKinds /\ keyErr = Nil THEN [kind |-> kind, key |-> key] ELSE NoKey

NothingCalled ==
  /\ kind = "none" /\ arg = <<>> /\ index = 0
  /\ objectType = <<>> /\ attributes = <<>>
  /\ key = <<>> /\ keyErr = Nil
  /\ splitRes = NoSplit /\ subRes = NoSub /\ prev = NoKey
  /\ answer = NoAnswer

\* one call of the codec or of the catalog
Init ==
  /\ NothingCalled
  /\ calls \in {<<c>> : c \in CodecCalls \cup CatalogCalls(Strings, TxIDs)}
  /\ query = NoQuery

\* two catalog calls in a row
InitCatalog ==
  /\ NothingCalled
  /\ calls \in {<<c, d>> : c \in CatalogCalls(ShortStrings, TxIDs),
                           d \in CatalogCalls(Strings, TxIDs)}
  /\ query = NoQuery

\* a balance query against a wallet
InitBalance ==
  /\ NothingCalled
  /\ calls = <<>>
  /\ query \in [Type : Types, found : BOOLEAN, listErr : ListErrors,
                tokens : TokenLists, precision : Precisions]

Pending(k) == calls # <<>> /\ Head(calls).kind = k

\* a constructor k(a, i) returning CreateCompositeKey(ot, attrs)
Build(k, a, i, ot, attrs) ==
  LET r == CreateCompositeKey(ot, attrs)
  IN  /\ calls' = Tail(calls)
      /\ kind' = k /\ arg' = a /\ index' = i
      /\ objectType' = ot /\ attributes' = attrs
      /\ key' = r.key /\ keyErr' = r.err
      /\ splitRes' = NoSplit /\ subRes' = NoSub
      /\ prev' = Last
      /\ UNCHANGED balVars

CallCreateCompositeKey ==
  /\ Pending("CreateCompositeKey")
  /\ LET c == Head(calls)
     IN  Build("CreateCompositeKey", <<>>, 0, c.objectType, c.attributes)

CreateTokenKey ==
  /\ Pending("CreateTokenKey")
  /\ LET txID == Head(calls).arg
         i    == Head(calls).index
     IN  Build("CreateTokenKey", txID, i, TokenKeyPrefix, TokenKeyAttributes(txID, i))

CreateSNKey ==
  /\ Pending("CreateSNKey")
  /\ LET sn == Head(calls).arg
     IN  Build("CreateSNKey", sn, 0, TokenKeyPrefix, SNKeyAttributes(sn))

CreateSetupKey ==
  /\ Pending("CreateSetupKey")
  /\ Build("CreateSetupKey", <<>>, 0, TokenKeyPrefix, SetupKeyAttributes)

CreateSetupHashKey ==
  /\ Pending("CreateSetupHashKey")
  /\ Build("CreateSetupHashKey", <<>>, 0, TokenKeyPrefix, SetupHashKeyAttributes)

CreateTokenRequestKey ==
  /\ Pending("CreateTokenRequestKey")
  /\ LET txID == Head(calls).arg
     IN  Build("CreateTokenRequestKey", txID, 0, TokenKeyPrefix,
               TokenRequestKeyAttributes(txID))

CreateIssueActionMetadataKey ==
  /\ Pending("CreateIssueActionMetadataKey")
  /\ LET hash == Head(calls).arg
     IN  Build("CreateIssueActionMetadataKey", hash, 0, TokenKeyPrefix,
               IssueActionMetadataKeyAttributes(hash))

CreateTransferActionMetadataKey ==
  /\ Pending("CreateTransferActionMetadataKey")
  /\ LET subKey == Head(calls).arg
     IN  Build("CreateTransferActionMetadataKey", subKey, 0, TokenKeyPrefix,
               TransferActionMetadataKeyAttributes(subKey))

\* a key read back from the state store: any byte string
ReadKey ==
  /\ Pending("ReadKey")
  /\ calls' = Tail(calls)
  /\ kind' = "ReadKey" /\ arg' = <<>> /\ index' = 0
  /\ objectType' = <<>> /\ attributes' = <<>>
  /\ key' = Head(calls).arg /\ keyErr' = Nil
  /\ splitRes' = NoSplit /\ subRes' = NoSub /\ prev' = Last
  /\ UNCHANGED balVars

HasKey == kind # "none" /\ keyErr = Nil

CallSplitCompositeKey ==
  /\ HasKey
  /\ ~splitRes.done
  /\ LET r == SplitCompositeKey(key)
     IN  splitRes' = [done |-> TRUE, prefix |-> r.prefix,
                      components |-> r.components, err |-> r.err]
  /\ UNCHANGED <<calls, kind, arg, index, objectType, attributes, key, keyErr, subRes, prev>>
  /\ UNCHANGED balVars

CallGetTransferMetadataSubKey ==
  /\ HasKey
  /\ ~subRes.done
  /\ LET r == GetTransferMetadataSubKey(key)
     IN  subRes' = [done |-> TRUE, subKey |-> r.subKey, err |-> r.err]
  /\ UNCHANGED <<calls, kind, arg, index, objectType, attributes, key, keyErr, splitRes, prev>>
  /\ UNCHANGED balVars

NextCatalog ==
  \/ CreateTokenKey
  \/ CreateSNKey
  \/ CreateSetupKey
  \/ CreateSetupHashKey
  \/ CreateTokenRequestKey
  \/ CreateIssueActionMetadataKey
  \/ CreateTransferActionMetadataKey

Next ==
  \/ NextCatalog
  \/ CallCreateCompositeKey
  \/ ReadKey
  \/ CallSplitCompositeKey
  \/ CallGetTransferMetadataSubKey

Spec == Init /\ [][Next]_vars

SpecCatalog == InitCatalog /\ [][NextCatalog]_vars

BalanceViewCall ==
  /\ ~answer.called
  /\ query # NoQuery
  /\ LET r == Call(query.Type, query.found, query.listErr, query.tokens, query.precision)
     IN  answer' = [called |-> TRUE, result |-> r.result, err |-> r.err]
  /\ UNCHANGED query
  /\ UNCHANGED keyVars

NextBalance == BalanceViewCall

SpecBalance == InitBalance /\ [][NextBalance]_vars

\* ================================================================ properties
IsBuild == kind \in CatalogKinds \cup {"CreateCompositeKey"}

HasNul(s) == \E i \in 1..Len(s) : s[i] = 0
MaxRuneBytes == <<244, 143, 191, 191>>
HasMax(s) == \E i \in 1..(Len(s) - 3) : SubSeq(s, i, i + 3) = MaxRuneBytes
\* valid text free of U+0000 and U+10FFFF
Clean(s) == ValidString(s) /\ ~HasNul(s) /\ ~HasMax(s)
AllClean == Clean(objectType) /\ \A n \in 1..Len(attributes) : Clean(attributes[n])

\* the delimiter bytes of a key from offset 1 on, and the text they terminate
Zeros(k) == {i \in 2..Len(k) : k[i] = 0}
NthZero(k, n) == CHOOSE z \in Zeros(k) : Cardinality({y \in Zeros(k) : y < z}) = n - 1
Component(k, n) ==
  SubSeq(k, IF n = 1 THEN 2 ELSE NthZero(k, n - 1) + 1, NthZero(k, n) - 1)
AttrCount(k) == Cardinality(Zeros(k)) - 1

\* t is the decimal rendering of n
IsDecimalOf(t, n) ==
  /\ t # <<>> /\ AllDigits(t)
  /\ (Len(t) > 1 => t[1] # 48)
  /\ DigitsValue(t) = n

RECURSIVE Frame(_)
Frame(attrs) == IF attrs = <<>> THEN <<>> ELSE Head(attrs) \o <<0>> \o Frame(Tail(attrs))

\* C1: whenever the object type and all attributes are valid text free of
\* U+0000 and U+10FFFF, CreateCompositeKey succeeds and SplitCompositeKey of
\* its key succeeds with exactly the object type and the attributes, for
\* attribute lists of every length
C1_RoundTrip ==
  (IsBuild /\ AllClean) =>
    /\ keyErr = Nil
    /\ splitRes.done =>
         /\ splitRes.err = Nil
         /\ splitRes.prefix = objectType
         /\ splitRes.components = attributes

\* C2: GetTransferMetadataSubKey returns a non-nil error for every key whose
\* number of attributes is not exactly 2
C2_WrongArityIsError ==
  (subRes.done /\ AttrCount(key) # 2) => subRes.err # Nil

\* C3: GetTransferMetadataSubKey(CreateTransferActionMetadataKey(s)) succeeds
\* and returns s, for every clean s
C3_TransferSubKeyRoundTrip ==
  (kind = "CreateTransferActionMetadataKey" /\ Clean(arg)) =>
    /\ keyErr = Nil
    /\ subRes.done => (subRes.err = Nil /\ subRes.subKey = arg)

C3_Witness ==
  /\ kind = "CreateTransferActionMetadataKey"
  /\ subRes.done /\ subRes.err = Nil
  /\ arg = <<>>

\* C4: on a key with exactly 2 attributes GetTransferMetadataSubKey fails if
\* the object type is not "ztoken", fails if the first attribute is not "tam",
\* and returns the second attribute when both checks pass
C4_PrefixAndMarkerChecked ==
  (subRes.done /\ AttrCount(key) = 2) =>
    IF Component(key, 1) = TokenKeyPrefix /\ Component(key, 2) = TransferActionMetadata
    THEN subRes.err = Nil /\ subRes.subKey = Component(key, 3)
    ELSE subRes.err # Nil /\ subRes.subKey = <<>>

C4_Witness ==
  /\ subRes.done /\ AttrCount(key) = 2
  /\ Component(key, 1) # TokenKeyPrefix
  /\ Component(key, 2) = TransferActionMetadata
  /\ subRes.err # Nil

\* the strings CreateCompositeKey validates, in order
Validated == <<objectType>> \o attributes
FirstBad == CHOOSE n \in 1..Len(Validated) :
              /\ ~Clean(Validated[n])
              /\ \A m \in 1..(n - 1) : Clean(Validated[m])
\* offsets (0-based) where a U+0000 or a U+10FFFF starts
Offending(s) ==
  {i \in 0..(Len(s) - 1) :
     \/ s[i + 1] = 0
     \/ (i + 4 <= Len(s) /\ SubSeq(s, i + 1, i + 4) = MaxRuneBytes)}
FirstOffending(s) == CHOOSE i \in Offending(s) : \A j \in Offending(s) : i <= j
RuneAt(s, i) == IF s[i + 1] = 0 THEN minUnicodeRuneValue ELSE MaxUnicodeRuneValue

C5_Outcome ==
  IsBuild =>
    /\ AllClean <=> keyErr = Nil
    /\ keyErr # Nil => key = <<>>

\* C5 as claimed: CreateCompositeKey fails exactly on unclean input, returns no
\* key then, and the error names the first U+0000 or U+10FFFF of the first
\* violating string and its position
C5_ErrorNamesCodepoint ==
  /\ C5_Outcome
  /\ (IsBuild /\ ~AllClean) =>
       LET s == Validated[FirstBad]
       IN  Offending(s) # {} =>
             /\ keyErr.kind = "forbidden rune"
             /\ keyErr.index = FirstOffending(s)
             /\ keyErr.rune = RuneAt(s, FirstOffending(s))

\* C5 amended: CreateCompositeKey fails exactly on unclean input and returns
\* no key then; if the first violating string is valid UTF-8 the error names
\* its first U+0000 or U+10FFFF and the byte offset, and if it is not valid
\* UTF-8 the error carries that string and names no codepoint
C5_ErrorOfFirstViolation ==
  /\ C5_Outcome
  /\ (IsBuild /\ ~AllClean) =>
       LET s == Validated[FirstBad]
       IN  IF ValidString(s)
           THEN /\ keyErr.kind = "forbidden rune"
                /\ keyErr.index = FirstOffending(s)
                /\ keyErr.rune = RuneAt(s, FirstOffending(s))
           ELSE /\ keyErr.kind = "not utf8"
                /\ keyErr.str = s

C5_Witness ==
  /\ IsBuild /\ keyErr.kind = "forbidden rune"
  /\ keyErr.index = 2 /\ keyErr.rune = minUnicodeRuneValue

CatalogAttributes ==
  CASE kind = "CreateSNKey" -> <<SerialNumber, arg>>
    [] kind = "CreateSetupKey" -> <<TokenSetupKeyPrefix>>
    [] kind = "CreateSetupHashKey" -> <<TokenSetupHashKeyPrefix>>
    [] kind = "CreateTokenRequestKey" -> <<TokenRequestKeyPrefix, arg>>
    [] kind = "CreateIssueActionMetadataKey" -> <<IssueActionMetadata, arg>>
    [] kind = "CreateTransferActionMetadataKey" -> <<TransferActionMetadata, arg>>
    [] OTHER -> attributes

\* C6: a key returned by CreateCompositeKey is 0x00, the object type, 0x00 and
\* each attribute followed by 0x00; every catalog key has object type "ztoken"
\* and the attribute list of its constructor, so it starts with
\* 0x00 "ztoken" 0x00 and ends with 0x00
C6_Framing ==
  (IsBuild /\ keyErr = Nil) =>
    /\ key = <<0>> \o objectType \o <<0>> \o Frame(attributes)
    /\ kind \in CatalogKinds =>
         /\ objectType = TokenKeyPrefix
         /\ attributes = CatalogAttributes
         /\ kind = "CreateTokenKey" =>
              /\ Len(attributes) = 2
              /\ attributes[1] = arg
              /\ IsDecimalOf(attributes[2], index)
         /\ SubSeq(key, 1, 8) = <<0>> \o TokenKeyPrefix \o <<0>>
         /\ key[Len(key)] = 0

C6_Witness ==
  /\ kind = "CreateTokenKey" /\ keyErr = Nil
  /\ index = 10 /\ Len(arg) = 2

\* C9: SplitCompositeKey fails, returning nothing, exactly when fewer than 3
\* delimiter-terminated components follow offset 1; otherwise the first is
\* the object type and the others, in order, the attributes; a key of
\* CreateTokenKey splits into "ztoken" and [txID, decimal(index)]
C9_SplitComponents ==
  splitRes.done =>
    LET n == Cardinality(Zeros(key))
    IN  /\ n < 3 <=> splitRes.err # Nil
        /\ splitRes.err # Nil => (splitRes.prefix = <<>> /\ splitRes.components = <<>>)
        /\ splitRes.err = Nil =>
             /\ splitRes.prefix = Component(key, 1)
             /\ Len(splitRes.components) = n - 1
             /\ \A j \in 1..(n - 1) : splitRes.components[j] = Component(key, j + 1)
        /\ kind = "CreateTokenKey" =>
             /\ splitRes.err = Nil
             /\ splitRes.prefix = TokenKeyPrefix
             /\ Len(splitRes.components) = 2
             /\ splitRes.components[1] = arg
             /\ IsDecimalOf(splitRes.components[2], index)

C9_Witness ==
  /\ kind = "CreateTokenKey" /\ splitRes.done
  /\ index = 10 /\ Len(arg) = 2

\* C10: keys returned by two different catalog constructors are different
C10_KindsDisjoint ==
  (prev.kind # "none" /\ kind \in CatalogKinds /\ keyErr = Nil /\ prev.kind # kind) =>
    prev.key # key

\* ------------------------------------------------------- balance properties
Parses(t, precision) == ToQuantity(t, precision).err = Nil
AllParse == \A n \in 1..Len(query.tokens) : Parses(query.tokens[n], query.precision)

RECURSIVE Total(_, _)
Total(tokens, precision) ==
  IF tokens = <<>> THEN 0
  ELSE ToQuantity(Head(tokens), precision).q.value + Total(Tail(tokens), precision)

Perms(n) == {f \in [1..n -> 1..n] : \A i, j \in 1..n : f[i] = f[j] => i = j}
Permute(tokens, f) == [i \in 1..Len(tokens) |-> tokens[f[i]]]

FractionDigits(t) ==
  IF \E i \in 1..Len(t) : t[i] = 46
  THEN Len(t) - (CHOOSE i \in 1..Len(t) : t[i] = 46)
  ELSE 0

\* C7: with the wallet found, the listing successful and every quantity
\* parsing, Call returns the queried type and the exact sum rendered with
\* exactly P fractional digits; "0.00" for no tokens at P = 2; and the same
\* for every permutation of the tokens
C7_BalanceIsExactSum ==
  (answer.called /\ query.found /\ query.listErr = Nil /\ AllParse) =>
    /\ answer.err = Nil
    /\ answer.result.set
    /\ answer.result.Type = query.Type
    /\ answer.result.Quantity =
         Decimal([precision |-> query.precision,
                  value |-> Total(query.tokens, query.precision)])
    /\ FractionDigits(answer.result.Quantity) = query.precision
    /\ (query.tokens = <<>> /\ query.precision = 2) =>
         answer.result.Quantity = <<48, 46, 48, 48>>
    /\ \A f \in Perms(Len(query.tokens)) :
         Call(query.Type, query.found, query.listErr, Permute(query.tokens, f),
              query.precision).result = answer.result

\* ["5.00", "2.50", "0.75"] at precision 2 gives "8.25"
C7_Witness ==
  /\ answer.called /\ answer.err = Nil
  /\ query.tokens = <<<<53, 46, 48, 48>>, <<50, 46, 53, 48>>, <<48, 46, 55, 53>>>>
  /\ query.precision = 2
  /\ answer.result.Quantity = <<56, 46, 50, 53>>

\* C8: if the wallet is not found, the listing fails or any quantity does not
\* parse, Call returns no result and a non-nil error
C8_AllOrNothing ==
  (answer.called /\ (~query.found \/ query.listErr # Nil \/ ~AllParse)) =>
    /\ answer.result = NoBalance
    /\ answer.err # Nil

C8_Witness ==
  /\ answer.called /\ query.found /\ query.listErr = Nil
  /\ Len(query.tokens) = 3
  /\ Parses(query.tokens[1], query.precision)
  /\ Parses(query.tokens[2], query.precision)
  /\ ~Parses(query.tokens[3], query.precision)
  /\ answer.err # Nil
====
